---- MODULE Spec2Model ----
(***************************************************************************)
(* A model of app.py, the Streamlit "Stock Data Analyzer": the symbol      *)
(* validation and fetch flow, the metadata formatters, and the indicator   *)
(* table that calculate_technical_indicators builds with pandas.           *)
(*                                                                         *)
(* Number representations.                                                 *)
(*   - Metadata numbers are decimals  (-1)^neg * m * 10^e  (Num).          *)
(*   - The rolling columns (MA20, MA50, RSI) are IEEE-like values: NaN,    *)
(*     +-Inf, or an exact fraction n/d with a sign bit for zero (Fin).     *)
(*   - The exponential columns (EMA12, EMA26, MACD, Signal) are exact      *)
(*     fixed-point numbers: an entry holds value * Scale(N) as a big       *)
(*     integer, Scale(N) = 1755^(N-1) for a table of N rows, which makes   *)
(*     every division of the recurrences exact.                            *)
(* Floating-point rounding is not modelled: arithmetic is exact.           *)
(***************************************************************************)
EXTENDS Integers, Sequences, FiniteSets, TLC

VARIABLES
    pc,            \* position of the script run
    symbol,        \* st.text_input(...).upper(), a sequence of characters
    stock,         \* first component of get_stock_data's result
    hist_data,     \* second component: a reference into frames, or None
    error,         \* third component: an error message, or None
    frames,        \* the DataFrame objects alive, by reference
    tech_data,     \* reference of the table calculate_technical_indicators returned
    display_data,  \* reference of the table shown by st.dataframe
    errors_shown,  \* the st.error calls made so far
    metrics,       \* the header and key-metric strings shown
    figs,          \* the plotly figures shown
    raised,        \* the exception that ended the run, or None
    fmt_arg,       \* argument of a formatter applied on its own
    fmt_ret        \* what that formatter returned or raised

vars == <<pc, symbol, stock, hist_data, error, frames, tech_data, display_data,
          errors_shown, metrics, figs, raised, fmt_arg, fmt_ret>>

None == [t |-> "None"]

Max(x, y) == IF x >= y THEN x ELSE y
Min(x, y) == IF x <= y THEN x ELSE y
Abs(x) == IF x >= 0 THEN x ELSE -x

RECURSIVE Pow10(_)
Pow10(k) == IF k = 0 THEN 1 ELSE 10 * Pow10(k - 1)

(***************************************************************************)
(* Bounds of the model.                                                    *)
(***************************************************************************)
MaxSymLen == 2      \* longest symbol typed
MaxFlowBars == 2    \* longest history a fetch returns in the flow
MaxBars == 51       \* longest history given to the indicator engine
MaxExp == 12        \* largest decimal exponent of a metadata number

(***************************************************************************)
(* Text: a string is a sequence of one-character strings.                  *)
(***************************************************************************)
DigitChars == <<"0", "1", "2", "3", "4", "5", "6", "7", "8", "9">>

RECURSIVE Digits(_)
Digits(n) ==
    IF n < 10 THEN <<DigitChars[n + 1]>>
    ELSE Digits(n \div 10) \o <<DigitChars[(n % 10) + 1]>>

RECURSIVE Zeros(_)
Zeros(k) == IF k <= 0 THEN <<>> ELSE <<"0">> \o Zeros(k - 1)

\* The ',' option of the format mini-language: a comma every three digits.
RECURSIVE Group3(_)
Group3(ds) ==
    IF Len(ds) <= 3 THEN ds
    ELSE Group3(SubSeq(ds, 1, Len(ds) - 3)) \o <<",">> \o SubSeq(ds, Len(ds) - 2, Len(ds))

NA == <<"N", "/", "A">>

(***************************************************************************)
(* Metadata values: what stock.info may hold under a key.                  *)
(***************************************************************************)
NaN == [t |-> "NaN"]
Num(neg, m, e) == [t |-> "num", neg |-> neg, m |-> m, e |-> e]
Str(s) == [t |-> "str", s |-> s]
OfInt(i) == Num(i < 0, Abs(i), 0)

\* pd.isna(value) as the formatters use it
IsNa(v) == v.t \in {"None", "NaN"}

\* Python truthiness: None, zero and "" are false; NaN is true.
Truthy(v) ==
    CASE v.t = "None" -> FALSE
      [] v.t = "NaN" -> TRUE
      [] v.t = "num" -> v.m # 0
      [] v.t = "str" -> v.s # <<>>

NumDigits(m) == Len(Digits(m))

\* value >= 10^k
GePow10(v, k) == ~v.neg /\ v.m # 0 /\ NumDigits(v.m) + v.e >= k + 1

\* value / 10^k
DivPow10(v, k) == Num(v.neg, v.m, v.e - k)

\* value * 100 (line 162)
Times100(v) == Num(v.neg, v.m, v.e + 2)

\* round(m / 10^k) for k >= 1, ties to even; m < 10^6
RoundDiv(m, k) ==
    IF k > 7 THEN 0
    ELSE LET p == Pow10(k)
             q == m \div p
             r == m % p
         IN IF 2 * r > p \/ (2 * r = p /\ q % 2 = 1) THEN q + 1 ELSE q

\* format(value, ".2f") or, with grouped, format(value, ",.2f")
Fixed2(v, grouped) ==
    LET sign == IF v.neg /\ v.m # 0 THEN <<"-">> ELSE <<>>
        cents == IF v.e >= 0 THEN 0
                 ELSE IF v.e >= -2 THEN v.m * Pow10(v.e + 2)
                 ELSE RoundDiv(v.m, -2 - v.e)
        whole == IF v.e >= 0
                 THEN (IF v.m = 0 THEN <<"0">> ELSE Digits(v.m) \o Zeros(v.e))
                 ELSE Digits(cents \div 100)
        frac == IF v.e >= 0 THEN <<"0", "0">>
                ELSE <<DigitChars[((cents % 100) \div 10) + 1], DigitChars[(cents % 10) + 1]>>
    IN sign \o (IF grouped THEN Group3(whole) ELSE whole) \o <<".">> \o frac

Return(s) == [ok |-> TRUE, val |-> s]
Raise(e) == [ok |-> FALSE, exc |-> e]

(***************************************************************************)
(* The formatters, lines 61-85.                                            *)
(***************************************************************************)
format_currency(value) ==
    IF IsNa(value) THEN Return(NA)
    ELSE IF value.t = "str" THEN Raise("ValueError")
    ELSE Return(<<"$">> \o Fixed2(value, TRUE))

\* format_number with the billion threshold written with one zero too many
format_number_typo(value) ==
    IF IsNa(value) THEN Return(NA)
    ELSE IF value.t = "str" THEN Raise("TypeError")
    ELSE IF GePow10(value, 10) THEN Return(Fixed2(DivPow10(value, 9), FALSE) \o <<"B">>)
    ELSE IF GePow10(value, 6) THEN Return(Fixed2(DivPow10(value, 6), FALSE) \o <<"M">>)
    ELSE IF GePow10(value, 3) THEN Return(Fixed2(DivPow10(value, 3), FALSE) \o <<"K">>)
    ELSE Return(Fixed2(value, FALSE))

format_number(value) ==
    IF IsNa(value) THEN Return(NA)
    ELSE IF value.t = "str" THEN Raise("TypeError")
    ELSE IF GePow10(value, 9) THEN Return(Fixed2(DivPow10(value, 9), FALSE) \o <<"B">>)
    ELSE IF GePow10(value, 6) THEN Return(Fixed2(DivPow10(value, 6), FALSE) \o <<"M">>)
    ELSE IF GePow10(value, 3) THEN Return(Fixed2(DivPow10(value, 3), FALSE) \o <<"K">>)
    ELSE Return(Fixed2(value, FALSE))

format_percentage(value) ==
    IF IsNa(value) THEN Return(NA)
    ELSE IF value.t = "str" THEN Raise("ValueError")
    ELSE Return(Fixed2(value, FALSE) \o <<"%">>)

\* f"{value:.2f}" written inline at lines 154 and 166
format_fixed(value) ==
    IF value.t = "None" THEN Raise("TypeError")
    ELSE IF value.t = "str" THEN Raise("ValueError")
    ELSE IF value.t = "NaN" THEN Return(<<"n", "a", "n">>)
    ELSE Return(Fixed2(value, FALSE))

(***************************************************************************)
(* Floating-point values of the rolling columns: NaN, +-Inf, or the exact  *)
(* fraction n/d (d > 0); nz marks the negative zero.                       *)
(***************************************************************************)
FNaN == [k |-> "nan"]
FInf(neg) == [k |-> "inf", neg |-> neg]
Fin(n, d) == [k |-> "fin", n |-> n, d |-> d, nz |-> FALSE]
FZero(nz) == [k |-> "fin", n |-> 0, d |-> 1, nz |-> nz]
FOfInt(i) == Fin(i, 1)

FIsNeg(x) == IF x.k = "inf" THEN x.neg ELSE IF x.n = 0 THEN x.nz ELSE x.n < 0

\* unary minus
FNeg(x) ==
    CASE x.k = "nan" -> x
      [] x.k = "inf" -> FInf(~x.neg)
      [] x.k = "fin" -> IF x.n = 0 THEN FZero(~x.nz) ELSE Fin(-x.n, x.d)

\* x + y
FAdd(x, y) ==
    CASE x.k = "nan" \/ y.k = "nan" -> FNaN
      [] x.k = "inf" /\ y.k = "inf" -> IF x.neg = y.neg THEN x ELSE FNaN
      [] x.k = "inf" /\ y.k = "fin" -> x
      [] x.k = "fin" /\ y.k = "inf" -> y
      [] x.k = "fin" /\ y.k = "fin" ->
            LET n == x.n * y.d + y.n * x.d
            IN IF n = 0 THEN FZero(x.n = 0 /\ y.n = 0 /\ x.nz /\ y.nz)
               ELSE Fin(n, x.d * y.d)

FSub(x, y) == FAdd(x, FNeg(y))

\* x / y as numpy divides float arrays: no exception, x/0 is +-Inf, 0/0 is NaN
FDiv(x, y) ==
    CASE x.k = "nan" \/ y.k = "nan" -> FNaN
      [] x.k = "inf" /\ y.k = "inf" -> FNaN
      [] x.k = "inf" /\ y.k = "fin" -> FInf(x.neg # FIsNeg(y))
      [] x.k = "fin" /\ y.k = "inf" -> FZero(FIsNeg(x) # y.neg)
      [] x.k = "fin" /\ y.k = "fin" ->
            IF y.n = 0
            THEN IF x.n = 0 THEN FNaN ELSE FInf(FIsNeg(x) # FIsNeg(y))
            ELSE IF x.n = 0 THEN FZero(FIsNeg(x) # FIsNeg(y))
            ELSE Fin((IF y.n < 0 THEN -1 ELSE 1) * x.n * y.d, x.d * Abs(y.n))

\* x == y and x <= y on finite values
FEq(x, y) == x.k = "fin" /\ y.k = "fin" /\ x.n * y.d = y.n * x.d
FLe(x, y) == x.k = "fin" /\ y.k = "fin" /\ x.n * y.d <= y.n * x.d

(***************************************************************************)
(* Big integers: little-endian limbs in base Base; a canonical number has  *)
(* limbs in 0..Base-1, with a last limb -1 when it is negative.            *)
(***************************************************************************)
Base == Pow10(6)

\* the limbs lo..hi of raw brought into 0..Base-1 with carry c coming in,
\* and the carry going out
RECURSIVE Carry(_, _, _, _)
Carry(raw, c, lo, hi) ==
    IF lo > hi THEN [limbs |-> <<>>, carry |-> c]
    ELSE IF lo = hi
         THEN LET t == raw[lo] + c IN [limbs |-> <<t % Base>>, carry |-> t \div Base]
    ELSE LET mid == (lo + hi) \div 2
             low == Carry(raw, c, lo, mid)
             high == Carry(raw, low.carry, mid + 1, hi)
         IN [limbs |-> low.limbs \o high.limbs, carry |-> high.carry]

\* the limbs of the last carry
RECURSIVE Top(_)
Top(c) ==
    IF c = 0 THEN <<>>
    ELSE IF c = -1 THEN <<-1>>
    ELSE <<c % Base>> \o Top(c \div Base)

RECURSIVE Trim(_)
Trim(s) ==
    IF s = <<>> THEN s
    ELSE IF s[Len(s)] = 0 THEN Trim(SubSeq(s, 1, Len(s) - 1))
    ELSE IF Len(s) >= 2 /\ s[Len(s)] = -1 /\ s[Len(s) - 1] = Base - 1
         THEN Trim(SubSeq(s, 1, Len(s) - 2) \o <<-1>>)
    ELSE s

Canon(raw) ==
    LET run == Carry(raw, 0, 1, Len(raw)) IN Trim(run.limbs \o Top(run.carry))
Limb(a, k) == IF k <= Len(a) THEN a[k] ELSE 0
BigOfInt(x) == Canon(<<x>>)
BigAdd(a, b) == Canon([k \in 1..Max(Len(a), Len(b)) |-> Limb(a, k) + Limb(b, k)])
BigScale(a, m) == Canon([k \in 1..Len(a) |-> a[k] * m])
BigSub(a, b) == BigAdd(a, BigScale(b, -1))
BigIsNeg(a) == a # <<>> /\ a[Len(a)] = -1

\* Long division of the limbs lo..hi of a by a small m > 0, rem being the
\* remainder of the limbs above: the quotient's limbs, the highest first, and
\* the remainder
RECURSIVE DivFrom(_, _, _, _, _)
DivFrom(a, rem, lo, hi, m) ==
    IF lo > hi THEN [limbs |-> <<>>, rem |-> rem]
    ELSE IF lo = hi
         THEN LET cur == rem * Base + a[lo]
              IN [limbs |-> <<cur \div m>>, rem |-> cur % m]
    ELSE LET mid == (lo + hi) \div 2
             high == DivFrom(a, rem, mid + 1, hi, m)
             low == DivFrom(a, high.rem, lo, mid, m)
         IN [limbs |-> high.limbs \o low.limbs, rem |-> low.rem]

\* floor(a / m)
BigDiv(a, m) ==
    LET q == DivFrom(a, 0, 1, Len(a), m).limbs
    IN Canon([k \in 1..Len(q) |-> q[Len(q) + 1 - k]])

\* <<a * b, a * b^2, ..., a * b^e>> for a small b
RECURSIVE Powers(_, _, _)
Powers(a, b, e) ==
    IF e = 0 THEN <<>>
    ELSE IF e = 1 THEN <<BigScale(a, b)>>
    ELSE LET left == Powers(a, b, e \div 2)
         IN left \o Powers(left[Len(left)], b, e - (e \div 2))
BigPow(b, e) == (<<BigOfInt(1)>> \o Powers(BigOfInt(1), b, e))[e + 1]

(***************************************************************************)
(* The windows and spans of calculate_technical_indicators.                *)
(***************************************************************************)
MA_SHORT == 20
MA_LONG == 50
RSI_WINDOW == 14
EMA_FAST == 12
EMA_SLOW == 26
SIGNAL_SPAN == 9

\* The fixed-point scale of the exponential columns of a table of N rows:
\* (13 * 27 * 5)^(N-1), a multiple of every denominator the recurrences make.
ScaleBase == (EMA_FAST + 1) * (EMA_SLOW + 1) * ((SIGNAL_SPAN + 1) \div 2)
Scale(N) == BigPow(ScaleBase, Max(N, 1) - 1)

(***************************************************************************)
(* pandas, as calculate_technical_indicators uses it.                      *)
(***************************************************************************)
\* Series.rolling(window).mean(): min_periods is the window, so an entry is
\* NaN until the window is full and when the window holds a NaN.
RECURSIVE WindowSum(_, _, _)
WindowSum(x, lo, hi) ==
    IF lo > hi THEN FOfInt(0)
    ELSE IF lo = hi THEN x[lo]
    ELSE LET mid == (lo + hi) \div 2
         IN FAdd(WindowSum(x, lo, mid), WindowSum(x, mid + 1, hi))

RollingMean(x, window) ==
    [i \in 1..Len(x) |->
        IF i < window THEN FNaN
        ELSE FDiv(WindowSum(x, i - window + 1, i), FOfInt(window))]

\* Series.diff(): the first entry is NaN
Diff(x) == [i \in 1..Len(x) |-> IF i = 1 THEN FNaN ELSE FSub(x[i], x[i - 1])]

\* delta.where(delta > 0, 0) and delta.where(delta < 0, 0): a NaN compares
\* false, so it is replaced by 0 as well
WherePositive(x) == [i \in 1..Len(x) |-> IF x[i].k = "fin" /\ x[i].n > 0 THEN x[i] ELSE FOfInt(0)]
WhereNegative(x) == [i \in 1..Len(x) |-> IF x[i].k = "fin" /\ x[i].n < 0 THEN x[i] ELSE FOfInt(0)]

\* Series.ewm(span=span, adjust=False).mean() on fixed-point entries:
\* weighted = (old_wt * weighted + new_wt * cur) / (old_wt + new_wt) with
\* old_wt = 1 - alpha, new_wt = alpha = 2 / (span + 1), skipped when
\* weighted == cur; the first entry is the first observation.
EwmStep(weighted, cur, span) ==
    IF weighted = cur THEN weighted
    ELSE BigDiv(BigAdd(BigScale(weighted, span - 1), BigScale(cur, 2)), span + 1)

\* the entries of rows lo..hi, weighted being the entry of row lo - 1
RECURSIVE Ewm(_, _, _, _, _)
Ewm(x, span, weighted, lo, hi) ==
    IF lo > hi THEN <<>>
    ELSE IF lo = hi THEN <<EwmStep(weighted, x[lo], span)>>
    ELSE LET mid == (lo + hi) \div 2
             left == Ewm(x, span, weighted, lo, mid)
         IN left \o Ewm(x, span, left[Len(left)], mid + 1, hi)
EwmMean(x, span) == IF Len(x) = 0 THEN <<>> ELSE <<x[1]>> \o Ewm(x, span, x[1], 2, Len(x))

(***************************************************************************)
(* DataFrames.  A frame is [index, cols]; frames holds the objects alive   *)
(* and a reference is the position of its object.                          *)
(***************************************************************************)
Ref(id) == [t |-> "ref", id |-> id]
PriceColumns == {"Open", "High", "Low", "Close", "Volume"}
IndicatorColumns == {"MA20", "MA50", "RSI", "EMA12", "EMA26", "MACD", "Signal"}

\* DataFrame.empty
IsEmpty(df) == Len(df.index) = 0

\* the caller passing hist_data itself instead of hist_data.copy()
CopyFrame_alias(fs, ref) == [frames |-> fs, ref |-> ref]

\* DataFrame.copy(): a new object with the same content
CopyFrame(fs, ref) == [frames |-> Append(fs, fs[ref.id]), ref |-> Ref(Len(fs) + 1)]

ToFloat(x) == [i \in 1..Len(x) |-> FOfInt(x[i])]

\* rolling(window, min_periods=1): a mean of the bars there are so far
SMA_partial(close, window) ==
    [i \in 1..Len(close) |->
        FDiv(WindowSum(ToFloat(close), Max(1, i - window + 1), i),
             FOfInt(Min(i, window)))]

\* df['Close'].rolling(window=window).mean(), lines 43-44
SMA(close, window) == RollingMean(ToFloat(close), window)

\* the RSI with where(cond) in place of where(cond, 0): the NaN of the
\* first delta stays in the gains and losses
RSI_keepnan(close) ==
    LET delta == Diff(ToFloat(close))
        keep(x) == [i \in 1..Len(x) |-> IF delta[i].k = "nan" THEN FNaN ELSE x[i]]
        gain == RollingMean(keep(WherePositive(delta)), RSI_WINDOW)
        negmean == RollingMean(keep(WhereNegative(delta)), RSI_WINDOW)
        loss == [i \in 1..Len(close) |-> FNeg(negmean[i])]
        rs == [i \in 1..Len(close) |-> FDiv(gain[i], loss[i])]
    IN [i \in 1..Len(close) |->
            FSub(FOfInt(100), FDiv(FOfInt(100), FAdd(FOfInt(1), rs[i])))]

\* lines 47-51
RSI(close) ==
    LET delta == Diff(ToFloat(close))
        gain == RollingMean(WherePositive(delta), RSI_WINDOW)
        negmean == RollingMean(WhereNegative(delta), RSI_WINDOW)
        loss == [i \in 1..Len(close) |-> FNeg(negmean[i])]
        rs == [i \in 1..Len(close) |-> FDiv(gain[i], loss[i])]
    IN [i \in 1..Len(close) |->
            FSub(FOfInt(100), FDiv(FOfInt(100), FAdd(FOfInt(1), rs[i])))]

\* the Close column in the fixed point of the exponential columns
Fixed(close) == LET S == Scale(Len(close)) IN [i \in 1..Len(close) |-> BigScale(S, close[i])]

\* df['Close'].ewm(span=span, adjust=False).mean(), lines 54-55
EMA(close, span) == EwmMean(Fixed(close), span)

\* the difference taken the wrong way round
MACD_swapped(ema12, ema26) == [i \in 1..Len(ema12) |-> BigSub(ema26[i], ema12[i])]

\* df['EMA12'] - df['EMA26'], line 56
MACD(ema12, ema26) == [i \in 1..Len(ema12) |-> BigSub(ema12[i], ema26[i])]

\* df['MACD'].ewm(span=9, adjust=False).mean(), line 57
Signal(macd) == EwmMean(macd, SIGNAL_SPAN)

\* The columns lines 43-57 assign, in a table with Close column close.
IndicatorsOf(close) ==
    LET ema12 == EMA(close, EMA_FAST)
        ema26 == EMA(close, EMA_SLOW)
        macd == MACD(ema12, ema26)
    IN [MA20 |-> SMA(close, MA_SHORT), MA50 |-> SMA(close, MA_LONG), RSI |-> RSI(close),
        EMA12 |-> ema12, EMA26 |-> ema26, MACD |-> macd, Signal |-> Signal(macd)]

\* calculate_technical_indicators(df): assigns the columns to the object it
\* is given and returns that same object.
calculate_technical_indicators(fs, ref) ==
    [frames |-> [fs EXCEPT ![ref.id].cols = IndicatorsOf(@.Close) @@ @], ref |-> ref]

(***************************************************************************)
(* The histories Yahoo may return: N bars whose closes rise by up until    *)
(* bar turn and fall by down after it, with a sawtooth of height saw.      *)
(***************************************************************************)
Shapes ==
    { [up |-> 0, down |-> 0, turn |-> 0, saw |-> 0],     \* flat
      [up |-> 1, down |-> 0, turn |-> 1000, saw |-> 0],  \* rising
      [up |-> 0, down |-> 1, turn |-> 0, saw |-> 0],     \* falling
      [up |-> 2, down |-> 1, turn |-> 7, saw |-> 0],     \* a peak at bar 7
      [up |-> 0, down |-> 2, turn |-> 20, saw |-> 0],    \* flat, then falling
      [up |-> 0, down |-> 0, turn |-> 0, saw |-> 3],     \* zigzag
      [up |-> 1, down |-> 1, turn |-> 30, saw |-> 2] }   \* zigzag on a late peak

ClosesOf(N, sh) ==
    [i \in 1..N |-> 10 + sh.down * N + sh.up * Min(i - 1, sh.turn)
                    - sh.down * Max(0, i - 1 - sh.turn) + sh.saw * ((i - 1) % 2)]

HistoryOf(N, sh) ==
    LET close == ClosesOf(N, sh)
    IN [index |-> [i \in 1..N |-> i],
        cols |-> [Open |-> [i \in 1..N |-> IF i = 1 THEN close[1] ELSE close[i - 1]],
                  High |-> [i \in 1..N |-> close[i] + 1],
                  Low |-> [i \in 1..N |-> close[i] - 1],
                  Close |-> close,
                  Volume |-> [i \in 1..N |-> 1000 + 10 * i]]]

Histories(maxlen) == {HistoryOf(N, sh) : N \in 0..maxlen, sh \in Shapes}

(***************************************************************************)
(* stock.info                                                              *)
(***************************************************************************)
MetricKeys == {"marketCap", "volume", "trailingPE", "trailingEps", "dividendYield",
               "beta", "fiftyTwoWeekHigh", "fiftyTwoWeekLow"}
InfoKeys == MetricKeys \cup {"previousClose"}
Infinity == Str(<<"I", "n", "f", "i", "n", "i", "t", "y">>)
MetaValues == {None, NaN, Num(FALSE, 0, 0), Num(FALSE, 12345, -1), Num(FALSE, 2, 9), Infinity}
Infos ==
    {[k \in InfoKeys |-> v] : v \in MetaValues}
    \cup {[k \in {} |-> None]}
    \cup {[k \in InfoKeys |-> IF k = "previousClose" THEN Num(FALSE, 3, 0) ELSE w] :
            w \in {None, Infinity}}

\* info.get(key, default)
Get(info, key, default) == IF key \in DOMAIN info THEN info[key] ELSE default

\* a - b on decimals (line 130); None and str operands raise TypeError
NumSub(a, b) ==
    IF b.t \in {"None", "str"} THEN Raise("TypeError")
    ELSE IF b.t = "NaN" THEN Return(NaN)
    ELSE LET e == Min(a.e, b.e)
             x == (IF a.neg THEN -1 ELSE 1) * a.m * Pow10(a.e - e)
             y == (IF b.neg THEN -1 ELSE 1) * b.m * Pow10(b.e - e)
         IN Return(Num(x - y < 0, Abs(x - y), e))

NumAbs(v) == IF v.t = "num" THEN Num(FALSE, v.m, v.e) ELSE v

\* Lines 126-173 as the sequence of their evaluations, each a Return or the
\* Raise that ends the run: price_change of line 130, then the strings
\* shown.  The percentage of line 131 is always a number and its text is
\* left out; a str dividend yield stays a str under line 162.
MetricCalls(info, df) ==
    LET close == df.cols.Close
        n == Len(close)
        current_price == OfInt(close[n])                       \* inside the guard of line 127
        prev_close == Get(info, "previousClose",
                          IF n > 1 THEN OfInt(close[n - 1]) ELSE current_price)
        price_change == NumSub(current_price, prev_close)
        market_cap == Get(info, "marketCap", None)
        volume == Get(info, "volume", None)
        pe_ratio == Get(info, "trailingPE", None)
        eps == Get(info, "trailingEps", None)
        dividend_yield == Get(info, "dividendYield", None)
        dividend_pct == IF Truthy(dividend_yield) /\ ~IsNa(dividend_yield)
                             /\ dividend_yield.t = "num"
                        THEN Times100(dividend_yield) ELSE dividend_yield
        beta == Get(info, "beta", None)
        high == Get(info, "fiftyTwoWeekHigh", None)
        low == Get(info, "fiftyTwoWeekLow", None)
    IN (IF IsEmpty(df) THEN <<>>
        ELSE << price_change,
                format_currency(current_price),
                IF price_change.ok THEN format_currency(NumAbs(price_change.val))
                ELSE price_change >>)
       \o
       << format_number(market_cap),
          format_number(volume),
          IF Truthy(pe_ratio) /\ ~IsNa(pe_ratio) THEN format_fixed(pe_ratio) ELSE Return(NA),
          IF Truthy(eps) THEN format_currency(eps) ELSE Return(NA),
          IF Truthy(dividend_pct) THEN format_percentage(dividend_pct) ELSE Return(NA),
          IF Truthy(beta) /\ ~IsNa(beta) THEN format_fixed(beta) ELSE Return(NA),
          format_currency(high),
          format_currency(low) >>

\* the calls made before the first one that raises, and that one
RECURSIVE Until(_, _)
Until(calls, i) ==
    IF i > Len(calls) THEN <<>>
    ELSE IF ~calls[i].ok THEN <<calls[i]>>
    ELSE <<calls[i]>> \o Until(calls, i + 1)

(***************************************************************************)
(* Validation and fetch, lines 16-38.                                      *)
(***************************************************************************)
Letters == {"A", "a"}
DigitSet == {DigitChars[i] : i \in 1..10}
SymbolChars == Letters \cup DigitSet \cup {".", "-"}

\* str.upper() on the characters typed here
Upper(s) == [i \in 1..Len(s) |-> IF s[i] = "a" THEN "A" ELSE s[i]]

\* re.compile(r'^[A-Za-z0-9\.\-]+$').match(symbol): one or more characters
\* of the class; '$' also matches before one trailing newline.
is_valid_stock_symbol(sym) ==
    LET body == IF Len(sym) >= 2 /\ sym[Len(sym)] = "\n"
                THEN SubSeq(sym, 1, Len(sym) - 1) ELSE sym
    IN Len(body) >= 1 /\ \A i \in 1..Len(body) : body[i] \in SymbolChars

Message(text, sym) == [t |-> "msg", text |-> text, symbol |-> sym]

\* What yf.Ticker(symbol) does on this call: fails, or has an info and a history.
Yahoo(maxlen) ==
    {[fails |-> TRUE, info |-> None, hist |-> None]}
    \cup {[fails |-> FALSE, info |-> info, hist |-> h] : info \in Infos, h \in Histories(maxlen)}

\* get_stock_data without the hist.empty test of line 33
get_stock_data_noempty(sym, period, yahoo) ==
    IF yahoo.fails
    THEN [stock |-> None, hist |-> None,
          error |-> Message("Error retrieving data for", sym)]
    ELSE [stock |-> [t |-> "Ticker", info |-> yahoo.info], hist |-> yahoo.hist, error |-> None]

\* get_stock_data(symbol, period): (stock, hist, error)
get_stock_data(sym, period, yahoo) ==
    IF yahoo.fails
    THEN [stock |-> None, hist |-> None,
          error |-> Message("Error retrieving data for", sym)]
    ELSE IF IsEmpty(yahoo.hist)
    THEN [stock |-> None, hist |-> None, error |-> Message("No data available for", sym)]
    ELSE [stock |-> [t |-> "Ticker", info |-> yahoo.info], hist |-> yahoo.hist, error |-> None]

(***************************************************************************)
(* The charts and the table, lines 179-357.                                *)
(***************************************************************************)
Trace(type, name, y) == [type |-> type, name |-> name, y |-> y]

\* lines 311-323: the bars of tech_data["MACD"] - tech_data["Signal"],
\* green where the difference is >= 0
Histogram(cols) ==
    LET y == [i \in 1..Len(cols.MACD) |-> BigSub(cols.MACD[i], cols.Signal[i])]
    IN [type |-> "Bar", name |-> "Histogram", y |-> y,
        marker_color |-> [i \in 1..Len(y) |-> IF BigIsNeg(y[i]) THEN "red" ELSE "green"]]

Figures(cols, chart_type, indicators) ==
    << [title |-> "Price History",
        traces |-> (IF chart_type = "Line"
                    THEN <<Trace("Scatter", "Close Price", <<"Close">>)>>
                    ELSE <<Trace("Candlestick", "Price", <<"Open", "High", "Low", "Close">>)>>)
                   \o (IF "Moving Averages" \in indicators
                       THEN <<Trace("Scatter", "20-day MA", <<"MA20">>),
                              Trace("Scatter", "50-day MA", <<"MA50">>)>>
                       ELSE <<>>)] >>
    \o (IF "RSI" \in indicators
        THEN << [title |-> "Relative Strength Index (RSI)",
                 traces |-> <<Trace("Scatter", "RSI", <<"RSI">>)>>] >>
        ELSE <<>>)
    \o (IF "MACD" \in indicators
        THEN << [title |-> "Moving Average Convergence Divergence (MACD)",
                 traces |-> <<Trace("Scatter", "MACD", <<"MACD">>),
                              Trace("Scatter", "Signal", <<"Signal">>),
                              Histogram(cols)>>] >>
        ELSE <<>>)

Reverse(x) == [i \in 1..Len(x) |-> x[Len(x) + 1 - i]]

\* lines 337-340: most recent first, the index as text, values rounded to
\* two decimals (the price columns hold whole numbers here)
DisplayFrame(df) ==
    [index |-> Reverse([i \in 1..Len(df.index) |-> Digits(df.index[i])]),
     cols |-> [c \in DOMAIN df.cols |-> Reverse(df.cols[c])]]

(***************************************************************************)
(* The script run.                                                         *)
(***************************************************************************)
TypedChars == {"a", "7", ".", "-", "$"}
Texts(maxlen) == UNION {[1..k -> TypedChars] : k \in 0..maxlen}
Periods == {"1mo", "3mo", "6mo", "1y", "2y", "5y", "max"}
ChartTypes == {"Line", "Candlestick"}
IndicatorChoices == SUBSET {"Moving Averages", "RSI", "MACD"}

Idle ==
    /\ stock = None /\ hist_data = None /\ error = None /\ frames = <<>>
    /\ tech_data = None /\ display_data = None /\ errors_shown = <<>>
    /\ metrics = <<>> /\ figs = <<>> /\ raised = None

Init ==
    /\ pc = "input" /\ symbol = <<>> /\ Idle
    /\ fmt_arg = None /\ fmt_ret = None

\* line 94
EnterSymbol(text) ==
    /\ pc = "input"
    /\ symbol' = Upper(text)
    /\ pc' = "validate"
    /\ UNCHANGED <<stock, hist_data, error, frames, tech_data, display_data,
                   errors_shown, metrics, figs, raised, fmt_arg, fmt_ret>>

\* lines 103-106
Validate ==
    /\ pc = "validate"
    /\ pc' = IF symbol # <<>> /\ is_valid_stock_symbol(symbol) THEN "fetch" ELSE "done"
    /\ errors_shown' = IF symbol # <<>> /\ ~is_valid_stock_symbol(symbol)
                       THEN Append(errors_shown, Message("Invalid stock symbol", <<>>))
                       ELSE errors_shown
    /\ UNCHANGED <<symbol, stock, hist_data, error, frames, tech_data, display_data,
                   metrics, figs, raised, fmt_arg, fmt_ret>>

\* line 108
Fetch(period, yahoo) ==
    /\ pc = "fetch"
    /\ LET got == get_stock_data(symbol, period, yahoo)
       IN /\ stock' = got.stock
          /\ error' = got.error
          /\ frames' = IF got.hist = None THEN frames ELSE Append(frames, got.hist)
          /\ hist_data' = IF got.hist = None THEN None ELSE Ref(Len(frames) + 1)
    /\ pc' = "fetched"
    /\ UNCHANGED <<symbol, tech_data, display_data, errors_shown, metrics, figs, raised,
                   fmt_arg, fmt_ret>>

\* lines 110-112 and 358-359
Dispatch ==
    /\ pc = "fetched"
    /\ pc' = IF error = None /\ stock # None /\ hist_data # None THEN "metrics" ELSE "done"
    /\ errors_shown' = IF error # None THEN Append(errors_shown, error)
                       ELSE IF stock # None /\ hist_data # None THEN errors_shown
                       ELSE Append(errors_shown, Message("No data available for", symbol))
    /\ UNCHANGED <<symbol, stock, hist_data, error, frames, tech_data, display_data,
                   metrics, figs, raised, fmt_arg, fmt_ret>>

\* lines 113-173
ShowMetrics ==
    /\ pc = "metrics"
    /\ LET done == Until(MetricCalls(stock.info, frames[hist_data.id]), 1)
           last == done[Len(done)]
       IN /\ metrics' = done
          /\ raised' = IF last.ok THEN None ELSE [t |-> "exc", exc |-> last.exc]
          /\ pc' = IF last.ok THEN "calc" ELSE "crashed"
    /\ UNCHANGED <<symbol, stock, hist_data, error, frames, tech_data, display_data,
                   errors_shown, figs, fmt_arg, fmt_ret>>

\* lines 176-177
Calculate ==
    /\ pc = "calc"
    /\ IF IsEmpty(frames[hist_data.id])
       THEN pc' = "done" /\ UNCHANGED <<frames, tech_data>>
       ELSE LET copy == CopyFrame(frames, hist_data)
                calc == calculate_technical_indicators(copy.frames, copy.ref)
            IN /\ frames' = calc.frames
               /\ tech_data' = calc.ref
               /\ pc' = "render"
    /\ UNCHANGED <<symbol, stock, hist_data, error, display_data, errors_shown,
                   metrics, figs, raised, fmt_arg, fmt_ret>>

\* lines 179-357
Render(chart_type, indicators) ==
    /\ pc = "render"
    /\ figs' = Figures(frames[tech_data.id].cols, chart_type, indicators)
    /\ frames' = Append(frames, DisplayFrame(frames[hist_data.id]))
    /\ display_data' = Ref(Len(frames) + 1)
    /\ pc' = "done"
    /\ UNCHANGED <<symbol, stock, hist_data, error, tech_data, errors_shown,
                   metrics, raised, fmt_arg, fmt_ret>>

Next ==
    \/ \E text \in Texts(MaxSymLen) : EnterSymbol(text)
    \/ Validate
    \/ \E period \in Periods, yahoo \in Yahoo(MaxFlowBars) : Fetch(period, yahoo)
    \/ Dispatch
    \/ ShowMetrics
    \/ Calculate
    \/ \E chart_type \in ChartTypes, indicators \in IndicatorChoices :
            Render(chart_type, indicators)

Spec == Init /\ [][Next]_vars

(***************************************************************************)
(* The indicator engine on its own: the run stands at line 176 with a      *)
(* history of up to MaxBars bars, fetched for "A" with an empty info.      *)
(***************************************************************************)
InitEngine ==
    /\ pc = "calc" /\ symbol = <<"A">>
    /\ \E h \in Histories(MaxBars) :
          /\ ~IsEmpty(h)
          /\ frames = <<h>>
          /\ metrics = Until(MetricCalls([k \in {} |-> None], h), 1)
    /\ stock = [t |-> "Ticker", info |-> [k \in {} |-> None]]
    /\ hist_data = Ref(1) /\ error = None
    /\ tech_data = None /\ display_data = None /\ errors_shown = <<>>
    /\ figs = <<>> /\ raised = None
    /\ fmt_arg = None /\ fmt_ret = None

NextEngine ==
    \/ Calculate
    \/ \E chart_type \in ChartTypes, indicators \in IndicatorChoices :
            Render(chart_type, indicators)

SpecEngine == InitEngine /\ [][NextEngine]_vars

(***************************************************************************)
(* The formatters on their own, each applied to one metadata value.        *)
(***************************************************************************)
Mantissas == {0, 1, 25, 999, 1234, 99999, 999999}
FormatValues ==
    {None, NaN, Infinity, Str(<<>>)}
    \cup {Num(neg, m, e) : neg \in BOOLEAN, m \in Mantissas, e \in (-2)..MaxExp}

InitFormat ==
    /\ pc = "format" /\ symbol = <<>> /\ Idle
    /\ fmt_arg \in FormatValues /\ fmt_ret = None

Apply(fn, ret) ==
    /\ pc = "format"
    /\ fmt_ret' = [fn |-> fn, ret |-> ret]
    /\ pc' = "formatted"
    /\ UNCHANGED <<symbol, stock, hist_data, error, frames, tech_data, display_data,
                   errors_shown, metrics, figs, raised, fmt_arg>>

FormatCurrency == Apply("format_currency", format_currency(fmt_arg))
FormatNumber == Apply("format_number", format_number(fmt_arg))
FormatPercentage == Apply("format_percentage", format_percentage(fmt_arg))

NextFormat == FormatCurrency \/ FormatNumber \/ FormatPercentage

SpecFormat == InitFormat /\ [][NextFormat]_vars

(***************************************************************************)
(* Properties.                                                             *)
(***************************************************************************)
TechCols == frames[tech_data.id].cols
Bars == Len(frames[hist_data.id].index)
Hundred == FOfInt(100)

RECURSIVE IntSum(_, _, _)
IntSum(x, lo, hi) ==
    IF lo > hi THEN 0
    ELSE IF lo = hi THEN x[lo]
    ELSE LET mid == (lo + hi) \div 2 IN IntSum(x, lo, mid) + IntSum(x, mid + 1, hi)

\* col is the moving average of close over w bars: NaN on the first w-1
\* rows, the mean of the last w closes on the others
IsMovingAverage(col, close, w) ==
    /\ Len(col) = Len(close)
    /\ \A i \in 1..Len(close) :
          IF i < w THEN col[i] = FNaN
          ELSE col[i].k = "fin" /\ col[i].n * w = col[i].d * IntSum(close, i - w + 1, i)
    /\ Cardinality({i \in 1..Len(close) : col[i] # FNaN})
          = IF w <= Len(close) THEN Len(close) - w + 1 ELSE 0

\* C1: MA20 and MA50 are undefined on the rows before a full window (rows
\* 1..w-1 here, indices 0..w-2 in the source) and the arithmetic mean of the
\* last w closes on every other row, so N-w+1 values are defined when
\* w <= N and none when N < w; the table is built in either case.
C1_MovingAverages ==
    /\ pc = "render" => tech_data # None
    /\ tech_data # None =>
          /\ IsMovingAverage(TechCols.MA20, TechCols.Close, 20)
          /\ IsMovingAverage(TechCols.MA50, TechCols.Close, 50)

C1_Witness ==
    /\ tech_data # None
    /\ Bars >= 50
    /\ TechCols.MA50[Bars] # FNaN
    /\ ~FEq(TechCols.MA20[Bars], TechCols.MA50[Bars])
    /\ ~FEq(TechCols.MA20[Bars], FOfInt(TechCols.Close[Bars]))

\* the 14-row window ending at row i holds no fall (no rise) of the close;
\* the delta of row 1 does not exist and counts as neither
NoFall(close, i) == \A j \in Max(2, i - 13)..i : close[j] >= close[j - 1]
NoRise(close, i) == \A j \in Max(2, i - 13)..i : close[j] <= close[j - 1]

\* C2: every RSI entry after the warm-up (row 15 on, index 14 in the
\* source) is a number in [0, 100], never NaN or infinite.
C2_RsiInRange ==
    tech_data # None =>
        \A i \in 15..Bars :
            /\ TechCols.RSI[i].k = "fin"
            /\ FLe(FOfInt(0), TechCols.RSI[i])
            /\ FLe(TechCols.RSI[i], Hundred)

\* C3: where the window holds no fall of the close (the mean loss is zero),
\* flat windows included, the RSI is 100, never NaN or infinite.
C3_ZeroLossIsHundred ==
    tech_data # None =>
        \A i \in 14..Bars :
            NoFall(TechCols.Close, i) => FEq(TechCols.RSI[i], Hundred)

\* C4 as claimed: the first 14 RSI entries (rows 1..14, indices 0..13) are
\* undefined.
C4_FirstFourteenUndefined ==
    tech_data # None => \A i \in 1..Min(14, Bars) : TechCols.RSI[i] = FNaN

\* C4 as amended: the first 13 RSI entries (rows 1..13, indices 0..12) are
\* undefined; from row 14 (index 13) on the entry is computed from the
\* 14-row window, the missing first delta counted as 0, and is a number
\* unless the close does not change in that window, when it is NaN.
C4_FirstThirteenUndefined ==
    tech_data # None =>
        /\ Len(TechCols.RSI) = Bars
        /\ \A i \in 1..Bars :
              IF i < 14 THEN TechCols.RSI[i] = FNaN
              ELSE /\ TechCols.RSI[i].k \in {"fin", "nan"}
                   /\ TechCols.RSI[i] = FNaN
                        <=> (NoFall(TechCols.Close, i) /\ NoRise(TechCols.Close, i))

C4_Witness ==
    /\ tech_data # None
    /\ Bars >= 15
    /\ TechCols.RSI[14].k = "fin"
    /\ ~FEq(TechCols.RSI[14], Hundred)
    /\ ~FEq(TechCols.RSI[14], FOfInt(0))

\* the close of row i in the fixed point of the exponential columns
FixedClose(i) == BigScale(Scale(Bars), TechCols.Close[i])

\* w is x smoothed with alpha = 2/(span+1): w[1] = x[1] and
\* (span+1) * w[i] = 2 * x[i] + (span-1) * w[i-1]
IsSmoothed(w, x, span) ==
    /\ Len(w) = Len(x)
    /\ \A i \in 1..Len(x) :
          IF i = 1 THEN w[1] = x[1]
          ELSE BigScale(w[i], span + 1)
                 = BigAdd(BigScale(x[i], 2), BigScale(w[i - 1], span - 1))

MacdTitle == "Moving Average Convergence Divergence (MACD)"
HistogramShown ==
    /\ pc = "done" /\ tech_data # None
    /\ \E f \in 1..Len(figs) : figs[f].title = MacdTitle

HistogramBars == figs[CHOOSE f \in 1..Len(figs) : figs[f].title = MacdTitle].traces[3]

\* C5: in the table calculate_technical_indicators returns, EMA12 and EMA26
\* start at the first close and follow EMA[i] = a*close[i] + (1-a)*EMA[i-1],
\* a = 2/(span+1); MACD = EMA12 - EMA26; Signal starts at MACD[0] and
\* follows the same recurrence with span 9; the histogram plotted is
\* MACD - Signal; every row has a value, and the first MACD, Signal and
\* histogram values are 0.
C5_MacdRecurrences ==
    /\ pc = "render" =>
          /\ IsSmoothed(TechCols.EMA12, [i \in 1..Bars |-> FixedClose(i)], 12)
          /\ IsSmoothed(TechCols.EMA26, [i \in 1..Bars |-> FixedClose(i)], 26)
          /\ Len(TechCols.MACD) = Bars
          /\ \A i \in 1..Bars :
                BigAdd(TechCols.MACD[i], TechCols.EMA26[i]) = TechCols.EMA12[i]
          /\ IsSmoothed(TechCols.Signal, TechCols.MACD, 9)
          /\ TechCols.MACD[1] = BigOfInt(0)
          /\ TechCols.Signal[1] = BigOfInt(0)
    /\ HistogramShown =>
          /\ Len(HistogramBars.y) = Bars
          /\ \A i \in 1..Bars :
                BigAdd(HistogramBars.y[i], TechCols.Signal[i]) = TechCols.MACD[i]
          /\ HistogramBars.y[1] = BigOfInt(0)

C5_Witness ==
    /\ HistogramShown
    /\ Bars >= 30
    /\ TechCols.MACD[Bars] # BigOfInt(0)
    /\ BigIsNeg(HistogramBars.y[Bars])
    /\ ~BigIsNeg(HistogramBars.y[2]) /\ HistogramBars.y[2] # BigOfInt(0)

\* value >= 10^k, by comparing integers
AtLeast(v, k) ==
    /\ ~v.neg
    /\ IF v.e >= k THEN v.m >= 1 ELSE k - v.e <= 9 /\ v.m >= Pow10(k - v.e)

DigitValue(ch) == CHOOSE d \in 0..9 : DigitChars[d + 1] = ch
RECURSIVE ParseNat(_)
ParseNat(ds) ==
    IF ds = <<>> THEN 0
    ELSE 10 * ParseNat(SubSeq(ds, 1, Len(ds) - 1)) + DigitValue(ds[Len(ds)])
AllDigits(ds) == ds # <<>> /\ \A i \in 1..Len(ds) : ds[i] \in {DigitChars[d] : d \in 1..10}

\* out is v / 10^k written with two decimals, then the suffix
IsScaled(out, v, k, suffix) ==
    LET body == SubSeq(out, 1, Len(out) - Len(suffix))
        signed == body # <<>> /\ body[1] = "-"
        digits == IF signed THEN Tail(body) ELSE body
        whole == SubSeq(digits, 1, Len(digits) - 3)
        frac == SubSeq(digits, Len(digits) - 1, Len(digits))
        e == v.e - k
    IN /\ Len(out) >= 4 + Len(suffix)
       /\ SubSeq(out, Len(out) - Len(suffix) + 1, Len(out)) = suffix
       /\ signed <=> (v.neg /\ v.m # 0)
       /\ AllDigits(whole) /\ AllDigits(frac) /\ digits[Len(digits) - 2] = "."
       /\ \/ v.m = 0 /\ Len(whole) = 1
          \/ v.m # 0 /\ Len(whole) = Max(1, NumDigits(v.m) + e)
          \/ v.m # 0 /\ e < 0 /\ Len(whole) = 1 + NumDigits(v.m) + e
       /\ NumDigits(v.m) + e <= 6 =>
             LET cents == 100 * ParseNat(whole) + ParseNat(frac)
             IN IF e >= -2 THEN cents = v.m * Pow10(e + 2)
                ELSE 2 * Abs(v.m - cents * Pow10(-2 - e)) <= Pow10(-2 - e)

FormattedNumber ==
    pc = "formatted" /\ fmt_ret.fn = "format_number" /\ fmt_arg.t = "num"

\* C6 as claimed: a number is scaled by the largest of T (10^12), B (10^9),
\* M (10^6), K (10^3) it reaches and written with two decimals and that
\* suffix; a smaller one is written plain with two decimals.
C6_SuffixesWithT ==
    FormattedNumber =>
        /\ fmt_ret.ret.ok
        /\ CASE AtLeast(fmt_arg, 12) -> IsScaled(fmt_ret.ret.val, fmt_arg, 12, <<"T">>)
             [] AtLeast(fmt_arg, 9) /\ ~AtLeast(fmt_arg, 12) ->
                    IsScaled(fmt_ret.ret.val, fmt_arg, 9, <<"B">>)
             [] AtLeast(fmt_arg, 6) /\ ~AtLeast(fmt_arg, 9) ->
                    IsScaled(fmt_ret.ret.val, fmt_arg, 6, <<"M">>)
             [] AtLeast(fmt_arg, 3) /\ ~AtLeast(fmt_arg, 6) ->
                    IsScaled(fmt_ret.ret.val, fmt_arg, 3, <<"K">>)
             [] OTHER -> IsScaled(fmt_ret.ret.val, fmt_arg, 0, <<>>)

\* C6 as amended: the suffixes are B, M and K only; every number from 10^9
\* up, 10^12 and above included, is divided by 10^9 and written with B.
C6_SuffixesToB ==
    FormattedNumber =>
        /\ fmt_ret.ret.ok
        /\ CASE AtLeast(fmt_arg, 9) -> IsScaled(fmt_ret.ret.val, fmt_arg, 9, <<"B">>)
             [] AtLeast(fmt_arg, 6) /\ ~AtLeast(fmt_arg, 9) ->
                    IsScaled(fmt_ret.ret.val, fmt_arg, 6, <<"M">>)
             [] AtLeast(fmt_arg, 3) /\ ~AtLeast(fmt_arg, 6) ->
                    IsScaled(fmt_ret.ret.val, fmt_arg, 3, <<"K">>)
             [] OTHER -> IsScaled(fmt_ret.ret.val, fmt_arg, 0, <<>>)

C6_Witness ==
    /\ FormattedNumber
    /\ fmt_arg = Num(FALSE, 25, 11)
    /\ fmt_ret.ret = Return(<<"2", "5", "0", "0", ".", "0", "0", "B">>)

\* C7: each formatter returns a string for every metadata value, never
\* raises, and returns "N/A" for None and NaN.
C7_FormattersTotal ==
    pc = "formatted" =>
        /\ fmt_ret.ret.ok
        /\ IsNa(fmt_arg) => fmt_ret.ret.val = NA

\* C8: no step changes the fetched history: hist_data stays the same object
\* with the same rows, values and columns; and the table that
\* calculate_technical_indicators returns has the rows of the history in the
\* same order, its columns unchanged, and the seven indicator columns added,
\* each with a value per row.
C8_HistoryUntouched ==
    [][ /\ hist_data # None =>
              /\ hist_data' = hist_data
              /\ frames'[hist_data.id] = frames[hist_data.id]
        /\ tech_data' # None =>
              LET h == frames'[hist_data'.id]
                  t == frames'[tech_data'.id]
              IN /\ tech_data' # hist_data'
                 /\ DOMAIN h.cols = PriceColumns
                 /\ t.index = h.index
                 /\ DOMAIN t.cols = PriceColumns \cup IndicatorColumns
                 /\ \A c \in PriceColumns : t.cols[c] = h.cols[c]
                 /\ \A c \in IndicatorColumns : Len(t.cols[c]) = Len(h.index)
      ]_vars

C8_Witness ==
    /\ pc = "done" /\ tech_data # None
    /\ Bars >= 2
    /\ DOMAIN TechCols = PriceColumns \cup IndicatorColumns

\* a second standard deviation band pair exists in the table: Upper and
\* Lower are NaN where MA20 is, and elsewhere lie at equal distances above
\* and below MA20
IsBandPair(upper, lower, middle) ==
    /\ Len(upper) = Len(middle) /\ Len(lower) = Len(middle)
    /\ \A i \in 1..Len(middle) :
          IF middle[i] = FNaN THEN upper[i] = FNaN /\ lower[i] = FNaN
          ELSE /\ upper[i].k = "fin" /\ lower[i].k = "fin"
               /\ FEq(FSub(upper[i], middle[i]), FSub(middle[i], lower[i]))
               /\ FLe(lower[i], upper[i])

\* C9: the table holds Bollinger bands around the 20-bar moving average:
\* an Upper and a Lower column, Upper - Middle = Middle - Lower = 2 * StdDev,
\* undefined exactly where the moving average is.
C9_BollingerBands ==
    tech_data # None =>
        \E u, l \in DOMAIN TechCols \ (PriceColumns \cup IndicatorColumns) :
            u # l /\ IsBandPair(TechCols[u], TechCols[l], TechCols.MA20)

\* the symbol the regular expression of line 19 accepts
WellFormed(sym) ==
    /\ sym # <<>>
    /\ \A i \in 1..Len(sym) : sym[i] \in {"A", "0", "1", "2", "3", "4", "5", "6", "7", "8", "9", ".", "-"}

Fetched == pc \in {"fetched", "metrics", "calc", "render", "crashed"} \/ stock # None \/ error # None
Ended == pc \in {"done", "crashed"}

\* get_stock_data is called for well-formed symbols only and returns a
\* stock and a non-empty history, or an error, never both or neither; the
\* indicators are computed only from such a history
FetchContract ==
    /\ pc = "fetch" \/ Fetched => WellFormed(symbol)
    /\ Fetched =>
          \/ /\ error = None /\ stock # None /\ hist_data # None
             /\ ~IsEmpty(frames[hist_data.id])
          \/ /\ error # None /\ stock = None /\ hist_data = None
    /\ ~Fetched => stock = None /\ hist_data = None /\ error = None
    /\ tech_data # None => Fetched /\ error = None /\ ~IsEmpty(frames[hist_data.id])

\* C10 as claimed: the fetch contract holds, and every run that computes no
\* indicators ends with an error message shown.
C10_ErrorOnEveryOtherPath ==
    /\ FetchContract
    /\ Ended /\ tech_data = None => errors_shown # <<>>

\* C10 as amended: the fetch contract holds, and a run that computes no
\* indicators ends in one of three ways: with one st.error message (an
\* invalid symbol, or the error get_stock_data returned), with nothing shown
\* (an empty symbol), or with the exception a metadata value raised in lines
\* 126-173.
C10_EndOfOtherPaths ==
    /\ FetchContract
    /\ Ended /\ tech_data = None =>
          \/ symbol = <<>> /\ errors_shown = <<>> /\ raised = None
          \/ /\ symbol # <<>> /\ ~WellFormed(symbol) /\ ~Fetched /\ raised = None
             /\ errors_shown = <<Message("Invalid stock symbol", <<>>)>>
          \/ error # None /\ errors_shown = <<error>> /\ raised = None
          \/ /\ pc = "crashed" /\ raised # None /\ error = None /\ stock # None
             /\ errors_shown = <<>>
    /\ Ended /\ tech_data # None => errors_shown = <<>> /\ raised = None

C10_Witness ==
    /\ pc = "done" /\ tech_data # None /\ error = None
    /\ WellFormed(symbol) /\ Len(symbol) = 2

====
